---- MODULE Spec2Model ----
(***************************************************************************)
(* Model of src/app.py: the book scraper (BookScraper), the normalizer     *)
(* (BookDataAnalyzer._preprocess), the SQLite store (BookDatabase) and the *)
(* Flask handlers that drive them (scrape_books, search).                  *)
(*                                                                         *)
(*   Spec        the store, one call at a time                             *)
(*   SpecNorm    the price conversion on one cell                          *)
(*   SpecScrape  scrape_multiple_pages, one page per step                  *)
(*   SpecOne     the server taking one request at a time                   *)
(*   SpecApp     the server with two request threads on the one connection *)
(*                                                                         *)
(* Texts are sequences of characters.  The two non-ASCII characters of the *)
(* source are written "Ac" (A with circumflex) and "GBP" (pound sign).     *)
(* A float is the integer number of 10^-Scale units it denotes.            *)
(***************************************************************************)
EXTENDS Integers, Sequences, FiniteSets, TLC

\* ------------------------------------------------------------------ bounds
MaxPlain == 3        \* longest glyph-free price text drawn for the normalizer
MaxPages == 3        \* largest num_pages handed to scrape_multiple_pages
MaxPerPage == 2      \* most product_pod containers on one page
MaxRuns == 2         \* /scrape requests one run of the server takes

\* ------------------------------------------------------------ text helpers
RECURSIVE Pow10(_)
Pow10(n) == IF n = 0 THEN 1 ELSE 10 * Pow10(n - 1)

Scale == MaxPlain + 1

Digits == {"5", "7"}

DigitVal(c) == IF c = "5" THEN 5 ELSE 7

RECURSIVE Flatten(_)
Flatten(ss) == IF ss = <<>> THEN <<>> ELSE Head(ss) \o Flatten(Tail(ss))

\* str.replace(old, "", regex=False): left to right, non-overlapping
RECURSIVE StrRemove(_, _)
StrRemove(s, old) ==
    IF Len(s) < Len(old) THEN s
    ELSE IF SubSeq(s, 1, Len(old)) = old
         THEN StrRemove(SubSeq(s, Len(old) + 1, Len(s)), old)
         ELSE <<Head(s)>> \o StrRemove(Tail(s), old)

RECURSIVE DigitsVal(_)
DigitsVal(s) == IF s = <<>> THEN 0
                ELSE DigitsVal(SubSeq(s, 1, Len(s) - 1)) * 10 + DigitVal(s[Len(s)])

DotPositions(s) == {i \in 1..Len(s) : s[i] = "."}

IsNumeric(s) ==
    /\ \A i \in 1..Len(s) : s[i] \in Digits \cup {"."}
    /\ Cardinality(DotPositions(s)) <= 1
    /\ \E i \in 1..Len(s) : s[i] \in Digits

\* float(text) as pandas' astype(float) applies it to one cell
\* error = TRUE stands for the ValueError a non-numeric text raises
AsFloat(s) ==
    IF ~IsNumeric(s) THEN [error |-> TRUE, v |-> 0]
    ELSE IF DotPositions(s) = {} THEN [error |-> FALSE, v |-> DigitsVal(s) * Pow10(Scale)]
    ELSE LET d == CHOOSE i \in DotPositions(s) : TRUE
             frac == SubSeq(s, d + 1, Len(s))
         IN  [error |-> FALSE,
              v |-> DigitsVal(SubSeq(s, 1, d - 1)) * Pow10(Scale)
                      + DigitsVal(frac) * Pow10(Scale - Len(frac))]

\* the two replaces in the other order
StripPrice_PoundFirst(p) == StrRemove(StrRemove(p, <<"GBP">>), <<"Ac", "GBP">>)

\* lines 109-113, one cell: both replaces, before the conversion
StripPrice(p) == StrRemove(StrRemove(p, <<"Ac", "GBP">>), <<"GBP">>)

PriceNumeric(p) == AsFloat(StripPrice(p))

\* lines 116-117, one cell: dict lookup, NaN for a key the dict lacks
NaN == [nan |-> TRUE, v |-> 0]

Num(n) == [nan |-> FALSE, v |-> n]

RatingNumeric(r) ==
    CASE r = "One" -> Num(1)
      [] r = "Two" -> Num(2)
      [] r = "Three" -> Num(3)
      [] r = "Four" -> Num(4)
      [] r = "Five" -> Num(5)
      [] OTHER -> NaN

\* ------------------------------------------------------------ the web site
base_url == "http://books.toscrape.com/"

\* product_pod containers the site may serve.  wellformed = FALSE is an
\* article that lacks one of the tags lines 56-60 dereference.
Pod(t, p, a, r, h, w) ==
    [title |-> t, price |-> p, availability |-> a, rating |-> r, href |-> h,
     wellformed |-> w]

Items ==
    { Pod("A", <<"GBP", "5">>, "In stock", "Five", <<"a_1/index.html">>, TRUE),
      Pod("A", <<"Ac", "GBP", "7">>, "Out of stock", "One",
          <<"catalogue/", "a_2/index.html">>, TRUE),
      Pod("B", <<"7">>, "In stock", "Five", <<"b_1/index.html">>, TRUE),
      Pod("B", <<"GBP", "7">>, "In stock", "five", <<"b_1/index.html">>, TRUE),
      Pod("A", <<"Ac", "5">>, "In stock", "Three", <<"a_1/index.html">>, TRUE),
      Pod("A", <<"GBP", "5">>, "In stock", "Five", <<"a_1/index.html">>, FALSE) }

\* the containers the site serves to scrape_multiple_pages in SpecScrape
PageItems == { it \in Items : it.title = "A" /\ ~PriceNumeric(it.price).error }

SeqsUpTo(S, n) == UNION { [1..k -> S] : k \in 0..n }

\* what requests.get may produce for one url
ResponsesOver(pool) ==
    { [status |-> "200", items |-> s] : s \in SeqsUpTo(pool, MaxPerPage) }
      \cup { [status |-> "404", items |-> <<>>], [status |-> "exception", items |-> <<>>] }

\* lines 25-42: the page text, or None
fetch_webpage(resp) ==
    IF resp.status = "200" THEN [none |-> FALSE, text |-> resp.items]
    ELSE [none |-> TRUE, text |-> <<>>]

Contains(segs, x) == \E i \in 1..Len(segs) : segs[i] = x

\* lines 56-71: the dict appended for one container
BookDict(it) ==
    [title |-> it.title, price |-> it.price, availability |-> it.availability,
     rating |-> it.rating,
     url |-> <<base_url>> \o (IF Contains(it.href, "catalogue/") THEN it.href
                              ELSE <<"catalogue/">> \o it.href)]

\* lines 55-71: the loop over the containers, which stops where a container
\* lacks a tag (the attribute access raises)
RECURSIVE AppendPods(_, _)
AppendPods(bks, items) ==
    IF items = <<>> THEN [books |-> bks, raised |-> FALSE]
    ELSE IF ~Head(items).wellformed THEN [books |-> bks, raised |-> TRUE]
    ELSE AppendPods(Append(bks, BookDict(Head(items))), Tail(items))

\* a page scrape that reports success for a page without containers
scrape_books_from_page_EmptyOk(bks, resp) ==
    LET html == fetch_webpage(resp) IN
    IF html.none THEN [ret |-> "False", books |-> bks]
    ELSE LET r == AppendPods(bks, html.text)
         IN  [ret |-> IF r.raised THEN "raise" ELSE "True", books |-> r.books]

\* lines 44-73: ret is "True", "False", or "raise" when the loop raised
scrape_books_from_page(bks, resp) ==
    LET html == fetch_webpage(resp) IN
    IF html.none \/ html.text = <<>> THEN [ret |-> "False", books |-> bks]
    ELSE LET r == AppendPods(bks, html.text)
         IN  [ret |-> IF r.raised THEN "raise" ELSE "True", books |-> r.books]

\* ------------------------------------------------------------- the analyzer
\* lines 107-117 on one row of the frame
PreprocessRow(b) ==
    [title |-> b.title, price |-> b.price, availability |-> b.availability,
     rating |-> b.rating, url |-> b.url,
     price_numeric |-> PriceNumeric(b.price).v,
     rating_numeric |-> RatingNumeric(b.rating)]

\* lines 91-95 and 107-117: astype(float) converts the whole column, so one
\* text it cannot convert raises out of the constructor; an empty list
\* leaves the empty frame
BookDataAnalyzer(books_data) ==
    IF \E i \in 1..Len(books_data) : PriceNumeric(books_data[i].price).error
    THEN [raised |-> TRUE, df |-> <<>>]
    ELSE [raised |-> FALSE,
          df |-> [i \in 1..Len(books_data) |-> PreprocessRow(books_data[i])]]

\* ---------------------------------------------------------------- the store
Titles(table) == { table[i].title : i \in 1..Len(table) }

\* a store that counts the row before the INSERT has succeeded
SqlInsert_CountFirst(st, row) ==
    IF row.rating_numeric.nan
    THEN [st EXCEPT !.failed = @ + 1, !.count = @ + 1]
    ELSE [st EXCEPT !.table = Append(@, [id |-> st.seq + 1, title |-> row.title,
                                         price |-> row.price_numeric,
                                         rating |-> row.rating_numeric.v,
                                         availability |-> row.availability,
                                         url |-> row.url]),
                    !.seq = @ + 1,
                    !.count = @ + 1]

\* lines 151-160 and 177-187: one INSERT.  A NaN binds as NULL and the
\* rating column is NOT NULL; the id is the AUTOINCREMENT successor.
SqlInsert(st, row) ==
    IF row.rating_numeric.nan
    THEN [st EXCEPT !.failed = @ + 1]
    ELSE [st EXCEPT !.table = Append(@, [id |-> st.seq + 1, title |-> row.title,
                                         price |-> row.price_numeric,
                                         rating |-> row.rating_numeric.v,
                                         availability |-> row.availability,
                                         url |-> row.url]),
                    !.seq = @ + 1,
                    !.count = @ + 1]

\* a loop that overwrites the stored row of a known title
InsertRow_Upsert(st, existing, row) ==
    IF row.title \in existing
    THEN [st EXCEPT !.table =
            [i \in 1..Len(@) |->
               IF @[i].title = row.title
               THEN [@[i] EXCEPT !.price = row.price_numeric,
                                 !.availability = row.availability, !.url = row.url]
               ELSE @[i]]]
    ELSE SqlInsert(st, row)

\* lines 173-190: one iteration of the loop over the frame
InsertRow(st, existing, row) ==
    IF row.title \in existing THEN st ELSE SqlInsert(st, row)

\* lines 173-190: the loop
RECURSIVE InsertRows(_, _, _)
InsertRows(st, existing, df) ==
    IF df = <<>> THEN st
    ELSE InsertRows(InsertRow(st, existing, Head(df)), existing, Tail(df))

\* a call that never reads the known titles
insert_books_NoSnapshot(table, sq, df) ==
    InsertRows([table |-> table, seq |-> sq, count |-> 0, failed |-> 0], {}, df)

\* lines 165-193: table and sequence after the call, the count it prints
\* (no print for the empty frame) and the inserts that raised
insert_books(table, sq, df) ==
    LET st0 == [table |-> table, seq |-> sq, count |-> 0, failed |-> 0] IN
    IF df = <<>> THEN st0
    ELSE InsertRows(st0, Titles(table), df)

\* lines 195-201
get_book_by_id(table, book_id) ==
    IF \E i \in 1..Len(table) : table[i].id = book_id
    THEN [none |-> FALSE,
          row |-> table[CHOOSE i \in 1..Len(table) : table[i].id = book_id]]
    ELSE [none |-> TRUE, row |-> <<>>]

\* ORDER BY rating DESC, price DESC
SortsBefore_PriceDesc(a, b) ==
    \/ a.rating > b.rating
    \/ a.rating = b.rating /\ a.price > b.price

\* line 257: ORDER BY rating DESC, price ASC
SortsBefore(a, b) ==
    \/ a.rating > b.rating
    \/ a.rating = b.rating /\ a.price < b.price

\* SQLite's sorter keeps rows of equal keys in the order the scan feeds them
RECURSIVE SorterInsert(_, _)
SorterInsert(sorted, r) ==
    IF sorted = <<>> THEN <<r>>
    ELSE IF SortsBefore(r, Head(sorted)) THEN <<r>> \o sorted
    ELSE <<Head(sorted)>> \o SorterInsert(Tail(sorted), r)

RECURSIVE OrderBy(_)
OrderBy(rows) ==
    IF rows = <<>> THEN <<>>
    ELSE SorterInsert(OrderBy(SubSeq(rows, 1, Len(rows) - 1)), rows[Len(rows)])

\* lines 253-260: the table is scanned in rowid order, filtered, sorted
SelectWhere(table, min_r, max_p) ==
    SelectSeq(table, LAMBDA r : r.rating >= min_r /\ r.price <= max_p)

Project(r) ==
    [id |-> r.id, title |-> r.title, price |-> r.price, rating |-> r.rating,
     availability |-> r.availability]

SearchQuery(table, min_r, max_p) ==
    LET rows == OrderBy(SelectWhere(table, min_r, max_p))
    IN  [i \in 1..Len(rows) |-> Project(rows[i])]

\* -------------------------------------------------------------------- state
VARIABLES
    books,      \* rows of the books table, in rowid order
    seq,        \* the table's AUTOINCREMENT high-water mark
    last,       \* the last call made on the store and what it answered
    sc,         \* a BookScraper inside scrape_multiple_pages
    fetched,    \* the fetches that call has made, in order
    nm,         \* one price cell on its way through _preprocess
    analyzer,   \* the module-level analyzer: its frame, or none
    th,         \* the request threads of the server
    runs        \* /scrape requests the server has taken

vars == <<books, seq, last, sc, fetched, nm, analyzer, th, runs>>

Threads == {1, 2}

NoAnalyzer == [none |-> TRUE, df |-> <<>>]

NoCall ==
    [op |-> "none", df |-> <<>>, existing |-> {}, n |-> 0, count |-> 0, failed |-> 0,
     repeat |-> FALSE, min_r |-> 0, max_p |-> 0, id |-> 0, rows |-> <<>>]

IdleScraper == [pc |-> "idle", books |-> <<>>, i |-> 0, num_pages |-> 0]

IdleNorm == [pc |-> "idle", plain |-> <<>>, text |-> <<>>, stripped |-> <<>>,
             value |-> AsFloat(<<>>)]

IdleThread ==
    [pc |-> "idle", error |-> "none", raw |-> <<>>, df |-> <<>>, existing |-> {},
     idx |-> 0, count |-> 0, wrote |-> {}, rows |-> <<>>]

\* the process right after the module is loaded: line 211 has built the
\* store on a fresh file, line 212 has set analyzer to None
Init ==
    /\ books = <<>>
    /\ seq = 0
    /\ last = NoCall
    /\ sc = IdleScraper
    /\ fetched = <<>>
    /\ nm = IdleNorm
    /\ analyzer = NoAnalyzer
    /\ th = [t \in Threads |-> IdleThread]
    /\ runs = 0

\* ------------------------------------------------- the store, call by call
\* the frames the analyzer can hand to insert_books
Rows ==
    { PreprocessRow(BookDict(it)) :
        it \in { x \in Items : x.wellformed /\ ~PriceNumeric(x.price).error } }

\* lines 141-149: the store is built again.  os.remove may fail, and then
\* CREATE TABLE IF NOT EXISTS finds the old table.
Reset ==
    /\ \E removed \in BOOLEAN :
         /\ books' = IF removed THEN <<>> ELSE books
         /\ seq' = IF removed THEN 0 ELSE seq
    /\ last' = [NoCall EXCEPT !.op = "reset"]
    /\ UNCHANGED <<sc, fetched, nm, analyzer, th, runs>>

\* lines 165-193, the whole call
InsertBooks ==
    /\ \E df \in SeqsUpTo(Rows, MaxPerPage) :
         LET st == insert_books(books, seq, df) IN
         /\ books' = st.table
         /\ seq' = st.seq
         /\ last' = [NoCall EXCEPT !.op = "insert", !.df = df,
                                   !.existing = Titles(books), !.n = Len(books),
                                   !.count = st.count, !.failed = st.failed,
                                   !.repeat = (last.op = "insert" /\ last.df = df)]
    /\ UNCHANGED <<sc, fetched, nm, analyzer, th, runs>>

MinRatings == {1, 5}

MaxPrices == {AsFloat(<<"5">>).v, AsFloat(<<"7">>).v}

\* lines 253-260: the query of the search handler
SearchBooks ==
    /\ \E min_r \in MinRatings, max_p \in MaxPrices :
         last' = [NoCall EXCEPT !.op = "search", !.min_r = min_r, !.max_p = max_p,
                                !.rows = SearchQuery(books, min_r, max_p)]
    /\ UNCHANGED <<books, seq, sc, fetched, nm, analyzer, th, runs>>

\* lines 195-201
GetBookById ==
    /\ \E book_id \in 1..(seq + 1) :
         LET got == get_book_by_id(books, book_id) IN
         last' = [NoCall EXCEPT !.op = IF got.none THEN "get_none" ELSE "get",
                                !.id = book_id,
                                !.rows = IF got.none THEN <<>> ELSE <<got.row>>]
    /\ UNCHANGED <<books, seq, sc, fetched, nm, analyzer, th, runs>>

Next == Reset \/ InsertBooks \/ SearchBooks \/ GetBookById

Spec == Init /\ [][Next]_vars

\* ------------------------------------------------------ claims on the store
\* C1: insert_books called twice in a row with the same frame: the second
\* call counts zero insertions and leaves the number of stored rows as the
\* first call left it.
C1_SecondInsertAddsNothing ==
    (last.op = "insert" /\ last.repeat) =>
        /\ last.count = 0
        /\ Len(books) = last.n

C1_Witness ==
    /\ last.op = "insert"
    /\ last.repeat
    /\ Len(last.df) = MaxPerPage
    /\ \E i \in 1..Len(books) : books[i].title = last.df[1].title
    /\ \E i \in 1..Len(last.df) : last.df[i].rating_numeric.nan

\* C2: the store holds at most one row per title.
C2_OneRowPerTitle ==
    \A i, j \in 1..Len(books) : books[i].title = books[j].title => i = j

C8_RowsNeverChange ==
    [][ \/ Reset
        \/ \A i \in 1..Len(books) :
             get_book_by_id(books', books[i].id) = [none |-> FALSE, row |-> books[i]]
      ]_vars

C8_Witness ==
    /\ last.op = "insert"
    /\ \E i \in 1..Len(last.df), k \in 1..Len(books) :
         /\ k <= last.n
         /\ books[k].title = last.df[i].title
         /\ books[k].price # last.df[i].price_numeric
         /\ books[k].rating # last.df[i].rating_numeric.v
         /\ books[k].availability # last.df[i].availability
         /\ books[k].url # last.df[i].url

\* C9: an INSERT that raises is skipped and not counted, the rows after it
\* are still inserted and counted, and the count is the number of rows the
\* call added.
C9_FailedInsertSkipped ==
    last.op = "insert" =>
        LET Fresh(i) == last.df[i].title \notin last.existing
            Lands(i) == Fresh(i) /\ ~last.df[i].rating_numeric.nan
        IN
        /\ last.count = Len(books) - last.n
        /\ last.count = Cardinality({ i \in 1..Len(last.df) : Lands(i) })
        /\ last.failed = Cardinality({ i \in 1..Len(last.df) : Fresh(i) /\ ~Lands(i) })
        /\ \A i \in 1..Len(last.df) :
             Lands(i) =>
               \E k \in (last.n + 1)..Len(books) :
                 /\ books[k].title = last.df[i].title
                 /\ books[k].price = last.df[i].price_numeric
                 /\ books[k].rating = last.df[i].rating_numeric.v
                 /\ k - last.n = Cardinality({ j \in 1..i : Lands(j) })

C9_Witness ==
    /\ last.op = "insert"
    /\ last.failed >= 1
    /\ last.count >= 1
    /\ last.df[1].rating_numeric.nan
    /\ last.df[1].title \notin last.existing
    /\ books[Len(books)].title = last.df[Len(last.df)].title
    /\ Len(books) > last.n

\* ------------------------------------------------ the normalizer, cell by cell
PlainChars == Digits \cup {"."}

Glyphs == { <<>>, <<"GBP">>, <<"Ac", "GBP">> }

\* the text that carries glyph g[k] after the k-th character of plain
Decorate(plain, g) ==
    g[0] \o Flatten([k \in 1..Len(plain) |-> <<plain[k]>> \o g[k]])

InitNorm ==
    /\ books = <<>>
    /\ seq = 0
    /\ last = NoCall
    /\ sc = IdleScraper
    /\ fetched = <<>>
    /\ analyzer = NoAnalyzer
    /\ th = [t \in Threads |-> IdleThread]
    /\ runs = 0
    /\ \E plain \in SeqsUpTo(PlainChars, MaxPlain) :
         \E g \in [0..Len(plain) -> Glyphs] :
           nm = [IdleNorm EXCEPT !.pc = "cell", !.plain = plain,
                                 !.text = Decorate(plain, g)]

\* lines 109-114 on the cell
Preprocess ==
    /\ nm.pc = "cell"
    /\ nm' = [nm EXCEPT !.pc = "done", !.stripped = StripPrice(nm.text),
                        !.value = PriceNumeric(nm.text)]
    /\ UNCHANGED <<books, seq, last, sc, fetched, analyzer, th, runs>>

\* the converted cell goes through lines 109-114 once more
PreprocessAgain ==
    /\ nm.pc = "done"
    /\ nm' = [nm EXCEPT !.pc = "again", !.text = nm.stripped,
                        !.stripped = StripPrice(nm.stripped),
                        !.value = PriceNumeric(nm.stripped)]
    /\ UNCHANGED <<books, seq, last, sc, fetched, analyzer, th, runs>>

NextNorm == Preprocess \/ PreprocessAgain

SpecNorm == InitNorm /\ [][NextNorm]_vars

\* C7: the price conversion removes every pound sign, bare or behind the
\* stray "Ac", and gives the number the text without them denotes; a text
\* that is already a plain number comes out as it went in.
C7_PriceGlyphsStripped ==
    /\ nm.pc \in {"done", "again"} =>
         /\ \A i \in 1..Len(nm.stripped) : nm.stripped[i] \notin {"GBP", "Ac"}
         /\ IsNumeric(nm.plain) => nm.value = AsFloat(nm.plain)
         /\ nm.value.error = ~IsNumeric(nm.plain)
    /\ nm.pc = "again" => nm.stripped = nm.text

C7_Witness ==
    /\ nm.pc = "done"
    /\ IsNumeric(nm.plain)
    /\ Len(nm.plain) = MaxPlain
    /\ DotPositions(nm.plain) # {}
    /\ \E i \in 1..Len(nm.text) : nm.text[i] = "Ac"
    /\ \E i \in 1..Len(nm.text) : nm.text[i] = "GBP" /\ (i = 1 \/ nm.text[i - 1] # "Ac")
    /\ ~nm.value.error

\* -------------------------------------------------- the scraper, page by page
\* line 310 and line 75: a new BookScraper enters scrape_multiple_pages
ScrapeMultiplePages ==
    /\ sc.pc = "idle"
    /\ \E num_pages \in 0..MaxPages :
         sc' = [pc |-> "loop", books |-> <<>>, i |-> 1, num_pages |-> num_pages]
    /\ fetched' = <<>>
    /\ UNCHANGED <<books, seq, last, nm, analyzer, th, runs>>

\* lines 76-79: one pass of the loop, the fetch of page i included
ScrapePage ==
    /\ sc.pc = "loop"
    /\ sc.i <= sc.num_pages
    /\ \E resp \in ResponsesOver(PageItems) :
         LET page == scrape_books_from_page(sc.books, resp) IN
         /\ fetched' = Append(fetched, [page |-> sc.i, resp |-> resp])
         /\ sc' = [sc EXCEPT !.books = page.books,
                             !.i = IF page.ret = "True" THEN @ + 1 ELSE @,
                             !.pc = CASE page.ret = "True" -> "loop"
                                      [] page.ret = "False" -> "returned"
                                      [] OTHER -> "raised"]
    /\ UNCHANGED <<books, seq, last, nm, analyzer, th, runs>>

\* lines 76 and 80-81: range() is used up
ScrapeReturn ==
    /\ sc.pc = "loop"
    /\ sc.i > sc.num_pages
    /\ sc' = [sc EXCEPT !.pc = "returned"]
    /\ UNCHANGED <<books, seq, last, fetched, nm, analyzer, th, runs>>

\* the caller drops the scraper
ScrapeDone ==
    /\ sc.pc \in {"returned", "raised"}
    /\ sc' = IdleScraper
    /\ fetched' = <<>>
    /\ UNCHANGED <<books, seq, last, nm, analyzer, th, runs>>

NextScrape == ScrapeMultiplePages \/ ScrapePage \/ ScrapeReturn \/ ScrapeDone

SpecScrape == Init /\ [][NextScrape]_vars

\* a fetch that was a success and gave at least one container
GoodPage(f) == f.resp.status = "200" /\ f.resp.items # <<>>

PageDicts(f) == [k \in 1..Len(f.resp.items) |-> BookDict(f.resp.items[k])]

\* C3: pages are fetched as 1, 2, ... and never past num_pages nor past a
\* page that failed or was empty; what is returned is the dicts of the
\* pages before that page, in page order then in-page order.
C3_PaginationStops ==
    /\ \A j \in 1..Len(fetched) : fetched[j].page = j /\ j <= sc.num_pages
    /\ \A j \in 1..(Len(fetched) - 1) : GoodPage(fetched[j])
    /\ sc.pc = "returned" =>
         LET n == Len(fetched)
             stopped == n > 0 /\ ~GoodPage(fetched[n])
             kept == IF stopped THEN n - 1 ELSE n
         IN
         /\ stopped \/ n = sc.num_pages
         /\ sc.books = Flatten([j \in 1..kept |-> PageDicts(fetched[j])])

C3_Witness ==
    /\ sc.pc = "returned"
    /\ Len(fetched) >= 2
    /\ Len(fetched) < sc.num_pages
    /\ fetched[Len(fetched)].resp.status = "200"
    /\ Len(sc.books) = MaxPerPage
    /\ sc.books[1] # sc.books[2]

\* ------------------------------------------------ the server, thread by thread
\* lines 310-313: the scrape of page 1 (one pass of the loop of lines
\* 76-79), which touches nothing shared, up to the assignment of the
\* module-level analyzer.  An exception leaves the handler.
ScrapeBooks(t) ==
    /\ th[t].pc = "idle"
    /\ runs < MaxRuns
    /\ runs' = runs + 1
    /\ \E resp \in ResponsesOver(Items) :
         LET page == scrape_books_from_page(<<>>, resp)
             a == BookDataAnalyzer(page.books)
         IN
         IF page.ret = "raise" \/ a.raised
         THEN /\ th' = [th EXCEPT ![t] =
                          [IdleThread EXCEPT !.pc = "error", !.raw = page.books,
                             !.error = IF page.ret = "raise" THEN "AttributeError"
                                       ELSE "ValueError"]]
              /\ UNCHANGED analyzer
         ELSE /\ th' = [th EXCEPT ![t] =
                          [IdleThread EXCEPT !.pc = "call_insert", !.raw = page.books]]
              /\ analyzer' = [none |-> FALSE, df |-> a.df]
    /\ UNCHANGED <<books, seq, last, sc, fetched, nm>>

\* line 314 and lines 166-170: the frame of the module-level analyzer is
\* handed to insert_books, which reads the known titles
InsertBegin(t) ==
    /\ th[t].pc = "call_insert"
    /\ th' = [th EXCEPT ![t] =
                IF analyzer.df = <<>>
                THEN [@ EXCEPT !.pc = "respond"]
                ELSE [@ EXCEPT !.pc = "insert_loop", !.df = analyzer.df,
                               !.existing = Titles(books), !.idx = 1]]
    /\ UNCHANGED <<books, seq, last, sc, fetched, nm, analyzer, runs>>

\* lines 173-190: one pass of the loop
InsertNext(t) ==
    /\ th[t].pc = "insert_loop"
    /\ th[t].idx <= Len(th[t].df)
    /\ LET row == th[t].df[th[t].idx]
           st == InsertRow([table |-> books, seq |-> seq, count |-> th[t].count,
                            failed |-> 0], th[t].existing, row)
       IN
       /\ books' = st.table
       /\ seq' = st.seq
       /\ th' = [th EXCEPT ![t] =
                   [@ EXCEPT !.idx = @ + 1, !.count = st.count,
                             !.wrote = IF st.seq > seq THEN @ \cup {row.title} ELSE @]]
    /\ UNCHANGED <<last, sc, fetched, nm, analyzer, runs>>

\* lines 192-193 and 315-316
InsertCommit(t) ==
    /\ th[t].pc = "insert_loop"
    /\ th[t].idx > Len(th[t].df)
    /\ th' = [th EXCEPT ![t] = [@ EXCEPT !.pc = "respond"]]
    /\ UNCHANGED <<books, seq, last, sc, fetched, nm, analyzer, runs>>

\* lines 253-260 on a request thread
Search(t) ==
    /\ th[t].pc = "idle"
    /\ \E min_r \in MinRatings, max_p \in MaxPrices :
         th' = [th EXCEPT ![t] =
                  [IdleThread EXCEPT !.pc = "searched",
                     !.rows = SearchQuery(books, min_r, max_p)]]
    /\ UNCHANGED <<books, seq, last, sc, fetched, nm, analyzer, runs>>

\* the response is sent and the thread takes the next request
Respond(t) ==
    /\ th[t].pc \in {"respond", "error", "searched"}
    /\ th' = [th EXCEPT ![t] = IdleThread]
    /\ UNCHANGED <<books, seq, last, sc, fetched, nm, analyzer, runs>>

NextApp ==
    \E t \in Threads :
        \/ ScrapeBooks(t)
        \/ InsertBegin(t)
        \/ InsertNext(t)
        \/ InsertCommit(t)
        \/ Search(t)
        \/ Respond(t)

SpecApp == Init /\ [][NextApp]_vars

\* the same server taking one request at a time
NextOne ==
    \/ ScrapeBooks(1)
    \/ InsertBegin(1)
    \/ InsertNext(1)
    \/ InsertCommit(1)
    \/ Search(1)
    \/ Respond(1)

SpecOne == Init /\ [][NextOne]_vars

\* a scraped dict both of whose texts the analyzer's tables can convert
Convertible(b) == ~PriceNumeric(b.price).error /\ ~RatingNumeric(b.rating).nan

\* C4: a record whose price or rating cannot be converted is dropped alone:
\* every other record of the run is converted and handed to insert_books.
C4_BadRecordDroppedAlone ==
    \A t \in Threads :
        (th[t].pc \in {"error", "insert_loop", "respond"} /\ th[t].error # "AttributeError") =>
            \A i \in 1..Len(th[t].raw) :
                Convertible(th[t].raw[i]) =>
                    /\ th[t].pc # "error"
                    /\ \E k \in 1..Len(th[t].df) : th[t].df[k] = PreprocessRow(th[t].raw[i])

\* C5: the five rating words become 1..5 and no record with another rating
\* reaches insert_books.
C5_OnlyRatedRowsOffered ==
    /\ \A it \in Items : RatingNumeric(it.rating).nan \/ RatingNumeric(it.rating).v \in 1..5
    /\ \A t \in Threads :
         th[t].pc = "insert_loop" =>
            \A k \in 1..Len(th[t].df) :
                /\ ~th[t].df[k].rating_numeric.nan
                /\ th[t].df[k].rating_numeric.v \in 1..5

\* C10: the store is used by one request at a time, the SELECT of the known
\* titles and the INSERTs of one insert_books running without another
\* thread's in between, so that two runs under way at once never both insert
\* the same title.
C10_StoreSerialized ==
    \A t, u \in Threads : t # u => th[t].wrote \cap th[u].wrote = {}

====
